---- MODULE Spec2Model ----
(***************************************************************************)
(* Model of dqn/train.py: the DQN training loop (main) and the greedy      *)
(* evaluation episode (eval_model).                                        *)
(*                                                                         *)
(* Python floats are IEEE-754 binary64 values.  They are modelled exactly: *)
(* a float is a record [neg, m, e] of value (-1)^neg * m * 2^e with        *)
(* 2^52 <= m < 2^53 (or m = 0), m held as a little-endian sequence of      *)
(* 15-bit limbs, and every operation rounds to nearest, ties to even.      *)
(* Subnormals, infinities and NaN are outside the ranges the model uses.   *)
(***************************************************************************)
EXTENDS Integers, Sequences, FiniteSets, TLC

\* ------------------------------------------------------------------------
\* Evaluation order.  A bound variable holds a value, whereas the expression of
\* a definition or of an argument may be evaluated again at each use: Let
\* evaluates x once and hands the value to F.
\* ------------------------------------------------------------------------
Let(x, F(_)) == CHOOSE r \in {F(v) : v \in {x}} : TRUE

\* ------------------------------------------------------------------------
\* Natural numbers of arbitrary size: little-endian limbs, no high zero limb
\* ------------------------------------------------------------------------
BASE == 2^15

Min2(a, b) == IF a < b THEN a ELSE b

RECURSIVE BNormAt(_, _)
BNormAt(x, n) ==
  IF n = 0 THEN <<>>
  ELSE IF x[n] = 0 THEN BNormAt(x, n - 1) ELSE SubSeq(x, 1, n)

BNorm(x0) == Let(x0, LAMBDA x : BNormAt(x, Len(x)))

RECURSIVE BFromInt(_)
BFromInt(n) == IF n = 0 THEN <<>> ELSE <<n % BASE>> \o BFromInt(n \div BASE)

BLimb(x, j) == IF j <= Len(x) THEN x[j] ELSE 0

\* limbs j.. of x + y + c
RECURSIVE BAddAt(_, _, _, _)
BAddAt(x, y, j, c) ==
  IF j > Len(x) /\ j > Len(y) THEN (IF c = 0 THEN <<>> ELSE <<c>>)
  ELSE Let(BLimb(x, j) + BLimb(y, j) + c,
           LAMBDA s : <<s % BASE>> \o BAddAt(x, y, j + 1, s \div BASE))

BAdd(x0, y0) == Let(x0, LAMBDA x : Let(y0, LAMBDA y : BAddAt(x, y, 1, 0)))

\* limbs j.. of x - y - c, for x >= y
RECURSIVE BSubAt(_, _, _, _)
BSubAt(x, y, j, c) ==
  IF j > Len(x) THEN <<>>
  ELSE Let(BLimb(x, j) - BLimb(y, j) - c,
           LAMBDA s : IF s < 0 THEN <<s + BASE>> \o BSubAt(x, y, j + 1, 1)
                               ELSE <<s>> \o BSubAt(x, y, j + 1, 0))

BSub(x0, y0) == Let(x0, LAMBDA x : Let(y0, LAMBDA y : BNorm(BSubAt(x, y, 1, 0))))

RECURSIVE BCmpAt(_, _, _)
BCmpAt(x, y, j) ==
  IF j = 0 THEN 0
  ELSE IF x[j] > y[j] THEN 1
  ELSE IF x[j] < y[j] THEN -1
  ELSE BCmpAt(x, y, j - 1)

\* -1, 0, 1 as x <, =, > y
BCmp(x0, y0) ==
  Let(x0, LAMBDA x : Let(y0, LAMBDA y :
    IF Len(x) > Len(y) THEN 1
    ELSE IF Len(x) < Len(y) THEN -1
    ELSE BCmpAt(x, y, Len(x))))

\* limbs j.. of x * k + c, for 0 <= k < BASE
RECURSIVE BMulSmallAt(_, _, _, _)
BMulSmallAt(x, k, j, c) ==
  IF j > Len(x) THEN (IF c = 0 THEN <<>> ELSE <<c>>)
  ELSE Let(x[j] * k + c,
           LAMBDA p : <<p % BASE>> \o BMulSmallAt(x, k, j + 1, p \div BASE))

BMulSmall(x0, k0) ==
  Let(x0, LAMBDA x : Let(k0, LAMBDA k : BNorm(BMulSmallAt(x, k, 1, 0))))

\* x * (limbs j.. of y)
RECURSIVE BMulAt(_, _, _)
BMulAt(x, y, j) ==
  IF j > Len(y) THEN <<>>
  ELSE BAdd(BMulSmall(x, y[j]), <<0>> \o BMulAt(x, y, j + 1))

BMul(x0, y0) ==
  Let(x0, LAMBDA x : Let(y0, LAMBDA y :
    IF x = <<>> \/ y = <<>> THEN <<>> ELSE BNorm(BMulAt(x, y, 1))))

\* quotient and remainder of (limbs j.. of x) by d, 1 <= d <= BASE
RECURSIVE BDivModAt(_, _, _)
BDivModAt(x, d, j) ==
  IF j > Len(x) THEN [q |-> <<>>, r |-> 0]
  ELSE Let(BDivModAt(x, d, j + 1), LAMBDA hi :
       Let(hi.r * BASE + x[j], LAMBDA t :
         [q |-> <<t \div d>> \o hi.q, r |-> t % d]))

BDivMod(x0, d0) ==
  Let(x0, LAMBDA x : Let(d0, LAMBDA d :
    Let(BDivModAt(x, d, 1), LAMBDA dm : [q |-> BNorm(dm.q), r |-> dm.r])))

Zeros(n) == [j \in 1..n |-> 0]

\* x * 2^k and floor(x / 2^k)
BShl(x0, k0) ==
  Let(x0, LAMBDA x : Let(k0, LAMBDA k :
    IF x = <<>> THEN <<>> ELSE Zeros(k \div 15) \o BMulSmall(x, 2^(k % 15))))

BShr(x0, k0) ==
  Let(x0, LAMBDA x : Let(k0, LAMBDA k :
    IF Len(x) <= k \div 15 THEN <<>>
    ELSE BDivMod(SubSeq(x, (k \div 15) + 1, Len(x)), 2^(k % 15)).q))

RECURSIVE BitLenSmall(_)
BitLenSmall(n) == IF n = 0 THEN 0 ELSE 1 + BitLenSmall(n \div 2)

BBitLen(x0) ==
  Let(x0, LAMBDA x :
    IF x = <<>> THEN 0 ELSE 15 * (Len(x) - 1) + BitLenSmall(x[Len(x)]))

\* the largest g in lo..hi with y * g <= t (y * lo <= t is given)
RECURSIVE BDigit(_, _, _, _)
BDigit(t, y, lo, hi) ==
  IF lo = hi THEN lo
  ELSE Let((lo + hi + 1) \div 2, LAMBDA mid :
         IF BCmp(BMulSmall(y, mid), t) <= 0 THEN BDigit(t, y, mid, hi)
                                            ELSE BDigit(t, y, lo, mid - 1))

\* quotient and remainder of (limbs j.. of x) by y, where y's highest limb is at
\* least BASE / 2: the quotient limb is at most the estimate from the two highest
\* limbs of the running remainder, and at least the estimate less two
RECURSIVE BDivModBigAt(_, _, _)
BDivModBigAt(x, y, j) ==
  IF j > Len(x) THEN [q |-> <<>>, r |-> <<>>]
  ELSE Let(BDivModBigAt(x, y, j + 1), LAMBDA hi :
       Let(BNorm(<<x[j]>> \o hi.r), LAMBDA t :
       Let(Min2((BLimb(t, Len(y) + 1) * BASE + BLimb(t, Len(y))) \div y[Len(y)],
                BASE - 1), LAMBDA est :
       Let(BDigit(t, y, IF est < 2 THEN 0 ELSE est - 2, est), LAMBDA g :
         [q |-> <<g>> \o hi.q, r |-> BSub(t, BMulSmall(y, g))]))))

\* quotient and remainder of x by y, y > 0 of any size: both are scaled to bring
\* y's highest limb to BASE / 2 or more, which leaves the quotient as it is
BDivModBig(x0, y0) ==
  Let(x0, LAMBDA x : Let(y0, LAMBDA y :
  Let(15 - BitLenSmall(y[Len(y)]), LAMBDA k :
  Let(BDivModBigAt(BShl(x, k), BShl(y, k), 1), LAMBDA dm :
    [q |-> BNorm(dm.q), r |-> BShr(dm.r, k)]))))

\* ------------------------------------------------------------------------
\* binary64
\* ------------------------------------------------------------------------
FZero == [neg |-> FALSE, m |-> <<>>, e |-> 0]

\* the float nearest to (-1)^neg * (Q + t) * 2^E, where Q has at least 55 bits
\* and 0 <= t < 1 with t > 0 iff sticky: round to nearest, ties to even
FPack(neg, Q0, sticky0, E) ==
  Let(Q0, LAMBDA Q :
  Let(sticky0, LAMBDA sticky :
  Let(BBitLen(Q) - 53, LAMBDA s :
  Let(BShr(Q, s), LAMBDA q53 :
  Let(BCmp(BSub(Q, BShl(q53, s)), BShl(<<1>>, s - 1)), LAMBDA c :
  Let(IF c > 0 \/ (c = 0 /\ (sticky \/ q53[1] % 2 = 1))
        THEN BAdd(q53, <<1>>) ELSE q53, LAMBDA m1 :
  Let(BBitLen(m1) = 54, LAMBDA over :
    [neg |-> neg,
     m   |-> IF over THEN BShr(m1, 1) ELSE m1,
     e   |-> E + s + (IF over THEN 1 ELSE 0)])))))))

\* the float nearest to (-1)^neg * M * 2^E / d, 1 <= d <= BASE; an M of at most
\* 53 bits with d = 1 is a float as it stands
FRound(neg, M0, E0, d) ==
  Let(M0, LAMBDA M :
  Let(E0, LAMBDA E :
  Let(BBitLen(M), LAMBDA len :
    IF len = 0 THEN FZero
    ELSE IF d = 1 /\ len <= 53
      THEN [neg |-> neg, m |-> BShl(M, 53 - len), e |-> E - (53 - len)]
    ELSE IF d = 1 /\ len >= 55
      THEN FPack(neg, M, FALSE, E)
    ELSE Let(IF 56 + BitLenSmall(d) > len THEN 56 + BitLenSmall(d) - len ELSE 0,
             LAMBDA k :
         Let(BDivMod(BShl(M, k), d), LAMBDA dm :
           FPack(neg, dm.q, dm.r # 0, E - k))))))

\* float(n / d) for integers n >= 0, d >= 1: a parsed decimal, an int / int
FFromRat(n, d) == FRound(FALSE, BFromInt(n), 0, d)
FFromInt(n) == IF n < 0 THEN [FFromRat(-n, 1) EXCEPT !.neg = TRUE] ELSE FFromRat(n, 1)

FNeg(a0) == Let(a0, LAMBDA a : IF a.m = <<>> THEN a ELSE [a EXCEPT !.neg = ~a.neg])

FAdd(a0, b0) ==
  Let(a0, LAMBDA a : Let(b0, LAMBDA b :
    IF a.m = <<>> THEN b
    ELSE IF b.m = <<>> THEN a
    ELSE Let(Min2(a.e, b.e), LAMBDA e :
         Let(BShl(a.m, a.e - e), LAMBDA A :
         Let(BShl(b.m, b.e - e), LAMBDA B :
         Let(BCmp(A, B), LAMBDA c :
           IF a.neg = b.neg THEN FRound(a.neg, BAdd(A, B), e, 1)
           ELSE IF c = 0 THEN FZero
           ELSE IF c > 0 THEN FRound(a.neg, BSub(A, B), e, 1)
           ELSE FRound(b.neg, BSub(B, A), e, 1)))))))

FSub(a, b) == FAdd(a, FNeg(b))

FMul(a0, b0) ==
  Let(a0, LAMBDA a : Let(b0, LAMBDA b :
    IF a.m = <<>> \/ b.m = <<>> THEN FZero
    ELSE FRound(a.neg # b.neg, BMul(a.m, b.m), a.e + b.e, 1)))

\* a / d for an integer d in 1..BASE (the int is converted exactly)
FDivInt(a0, d) == Let(a0, LAMBDA a : FRound(a.neg, a.m, a.e, d))

\* a / b for b # 0
FDiv(a0, b0) ==
  Let(a0, LAMBDA a : Let(b0, LAMBDA b :
    IF a.m = <<>> THEN FZero
    ELSE Let(BDivModBig(BShl(a.m, 57), b.m), LAMBDA dm :
           FPack(a.neg # b.neg, dm.q, dm.r # <<>>, a.e - 57 - b.e))))

\* -1, 0, 1 as |a| <, =, > |b|
FCmpMag(a, b) ==
  IF a.m = <<>> THEN (IF b.m = <<>> THEN 0 ELSE -1)
  ELSE IF b.m = <<>> THEN 1
  ELSE IF a.e > b.e THEN 1
  ELSE IF a.e < b.e THEN -1
  ELSE BCmp(a.m, b.m)

\* a < b
FLess(a0, b0) ==
  Let(a0, LAMBDA a : Let(b0, LAMBDA b :
    IF a.m = <<>> /\ b.m = <<>> THEN FALSE
    ELSE IF a.m = <<>> THEN ~b.neg
    ELSE IF b.m = <<>> THEN a.neg
    ELSE IF a.neg /\ ~b.neg THEN TRUE
    ELSE IF ~a.neg /\ b.neg THEN FALSE
    ELSE IF a.neg THEN FCmpMag(a, b) > 0 ELSE FCmpMag(a, b) < 0))

FLeq(a, b) == ~FLess(b, a)

\* Python's max(a, b): the first argument unless the second is greater
FMax(a0, b0) == Let(a0, LAMBDA a : Let(b0, LAMBDA b : IF FLess(a, b) THEN b ELSE a))

FOne == [neg |-> FALSE, m |-> <<0, 0, 0, 2^7>>, e |-> -52]

\* ------------------------------------------------------------------------
\* Hyperparameters (main, lines 37-61) and the ranges explored
\* ------------------------------------------------------------------------
MaxTotal == 3
MaxNSteps == 2
MaxExplore == 3

\* N_STEPS = 0 never advances step_counter: the episodes explored are capped
MaxEpochs == MaxTotal + 1

Rewards == {1}
Cadences == {1, 2}
BatchSizes == {0, 1}

\* (INIT_EPS, FIN_EPS) as the decimals of the hyperparameter file
EpsRanges == {<<FFromRat(1, 1), FFromRat(5, 100)>>, <<FFromRat(9, 10), FFromRat(1, 10)>>}
\* PER_BETA
Betas == {FZero, FFromRat(4, 10), FOne}

\* runs that vary the budget, the episode length and the three cadences
ArgsControl ==
  [TOTAL_TIMESTEPS : 1..MaxTotal,
   N_STEPS         : 0..MaxNSteps,
   UPDATE_STEPS    : Cadences,
   UPDATE_TARGET   : Cadences,
   PLOT_INTERVAL   : Cadences,
   BATCH_SIZE      : BatchSizes,
   BUFFER_SIZE     : {2},
   PER             : {TRUE},
   PER_BETA        : {FFromRat(4, 10)},
   IS_LR_DECAY     : {TRUE},
   GAMMA           : {<<99, 100>>},
   INIT_LR         : {FFromRat(1, 1000)},
   LR_DECAY        : {FFromRat(1, 100)},
   EPS             : {<<FFromRat(1, 1), FFromRat(5, 100)>>},
   EXPLORE         : {2}]

\* runs that vary the schedules: epsilon's range and EXPLORE, PER and PER_BETA
ArgsSched ==
  [TOTAL_TIMESTEPS : 1..MaxTotal,
   N_STEPS         : 1..MaxNSteps,
   UPDATE_STEPS    : {1},
   UPDATE_TARGET   : {2},
   PLOT_INTERVAL   : {2},
   BATCH_SIZE      : {1},
   BUFFER_SIZE     : {2},
   PER             : {TRUE},
   PER_BETA        : Betas,
   IS_LR_DECAY     : {FALSE},
   GAMMA           : {<<99, 100>>},
   INIT_LR         : {FFromRat(1, 1000)},
   LR_DECAY        : {FFromRat(1, 100)},
   EPS             : EpsRanges,
   EXPLORE         : 1..MaxExplore]
  \cup
  [TOTAL_TIMESTEPS : 1..MaxTotal,
   N_STEPS         : 1..MaxNSteps,
   UPDATE_STEPS    : {1},
   UPDATE_TARGET   : {2},
   PLOT_INTERVAL   : {2},
   BATCH_SIZE      : {1},
   BUFFER_SIZE     : {2},
   PER             : {FALSE},
   PER_BETA        : {FFromRat(4, 10)},
   IS_LR_DECAY     : {FALSE},
   GAMMA           : {<<99, 100>>},
   INIT_LR         : {FFromRat(1, 1000)},
   LR_DECAY        : {FFromRat(1, 100)},
   EPS             : EpsRanges,
   EXPLORE         : 1..MaxExplore]

VARIABLES
  args,           \* the hyperparameters of the run
  pc,             \* position in main / eval_model
  epoch_counter, step_counter, lstep_counter,
  i,              \* iterations of the episode's for loop completed
  eps_rew, done, trunc,
  epsilon, lr,
  exp_replay,     \* [slots, cursor, counter, beta]
  online_qnet,    \* online parameters, as the number of optimizer steps applied
  target_qnet,    \* target parameters: the online parameters they were copied from
  accum,          \* [rew, eval_rew, steps]
  act_eps,        \* exploration rate passed to the last sample_discrete_action
  ev_i, ev_rew,   \* eval_model's loop index and eps_rew
  hist,           \* history: online parameters at the copy point of each update
  td              \* a sampled batch and its TD targets (lines 131-146)

vars == <<args, pc, epoch_counter, step_counter, lstep_counter, i, eps_rew, done,
          trunc, epsilon, lr, exp_replay, online_qnet, target_qnet, accum,
          act_eps, ev_i, ev_rew, hist, td>>

INIT_EPS == args.EPS[1]
FIN_EPS == args.EPS[2]

NoBeta == "no beta"
NoRate == "no call"

\* ------------------------------------------------------------------------
\* Replay buffer (replay_buffers.ExperienceReplay / PrioritizedExperienceReplay)
\* ------------------------------------------------------------------------
NewReplay(capacity, beta) ==
  [slots |-> <<>>, cursor |-> 0, counter |-> 0, capacity |-> capacity, beta |-> beta]

\* insert: write at the cursor, advance it circularly, count up to capacity
Insert(buf, tr) ==
  [buf EXCEPT
     !.slots   = IF Len(buf.slots) < buf.capacity THEN Append(buf.slots, tr)
                 ELSE [buf.slots EXCEPT ![buf.cursor + 1] = tr],
     !.cursor  = (buf.cursor + 1) % buf.capacity,
     !.counter = Min2(buf.counter + 1, buf.capacity)]

\* the transition main hands to insert (line 122): s, next_s and a are not modelled
Transition(rew, d, tr) == [rew |-> rew, done |-> d]

\* ------------------------------------------------------------------------
\* Pieces of main's loop body
\* ------------------------------------------------------------------------
WhileCondInclusive == step_counter <= args.TOTAL_TIMESTEPS
WhileCondEpochs == epoch_counter < args.TOTAL_TIMESTEPS

\* line 109
WhileCond == step_counter < args.TOTAL_TIMESTEPS

LearnGateAtBatchSize(counter, sc) ==
  counter >= args.BATCH_SIZE /\ sc % args.UPDATE_STEPS = 0

\* line 125
LearnGate(counter, sc) == counter > args.BATCH_SIZE /\ sc % args.UPDATE_STEPS = 0

SyncDueOnEnvSteps(lsc) == (step_counter + 1) % args.UPDATE_TARGET = 0

\* lines 128-129
SyncDue(lsc) == lsc % args.UPDATE_TARGET = 0

EpsDecayFromInit(e) == FMax(FIN_EPS, FSub(e, FDivInt(INIT_EPS, args.EXPLORE)))

\* line 161
EpsDecay(e) == FMax(FIN_EPS, FSub(e, FDivInt(FSub(INIT_EPS, FIN_EPS), args.EXPLORE)))

BetaAnnealFloorDiv(b, sc) ==
  LET fraction == FFromInt(sc \div args.TOTAL_TIMESTEPS)
  IN  FAdd(b, FMul(fraction, FSub(FOne, b)))

\* lines 164-165
BetaAnneal(b, sc) ==
  LET fraction == FFromRat(sc, args.TOTAL_TIMESTEPS)
  IN  FAdd(b, FMul(fraction, FSub(FOne, b)))

\* line 168
Break(d, tr) == d

\* line 172
LrDecay(l, epoch) == FDiv(l, FAdd(FOne, FMul(args.LR_DECAY, FFromInt(epoch))))

\* line 179
EvalDue(epoch) == epoch % args.PLOT_INTERVAL = 0

EvalRateCurrent(e) == e

\* line 28: the exploration rate eval_model passes
EvalRate(e) == FFromInt(-1)

NoBatch == "no batch"

InitWith(A, p, batches) ==
  /\ args \in A
  /\ pc = p
  /\ td \in batches
  /\ epoch_counter = 0 /\ step_counter = 0 /\ lstep_counter = 0
  /\ i = 0 /\ eps_rew = 0 /\ done = FALSE /\ trunc = FALSE
  /\ epsilon = INIT_EPS
  /\ lr = args.INIT_LR
  /\ exp_replay = NewReplay(args.BUFFER_SIZE, IF args.PER THEN args.PER_BETA ELSE NoBeta)
  /\ online_qnet = 0
  /\ target_qnet = 0
  /\ accum = [rew |-> <<>>, eval_rew |-> <<>>, steps |-> <<>>]
  /\ act_eps = NoRate
  /\ ev_i = 0 /\ ev_rew = 0
  /\ hist = <<>>

\* lines 109-113: the budget test passes and an episode begins
WhileEnter ==
  /\ pc = "while"
  /\ WhileCond
  /\ epoch_counter < MaxEpochs
  /\ epoch_counter' = epoch_counter + 1
  /\ eps_rew' = 0
  /\ i' = 0
  /\ pc' = "for"
  /\ UNCHANGED <<args, td, step_counter, lstep_counter, done, trunc, epsilon, lr,
                 exp_replay, online_qnet, target_qnet, accum, act_eps, ev_i,
                 ev_rew, hist>>

\* line 109: the budget test fails and main returns
WhileExit ==
  /\ pc = "while"
  /\ ~WhileCond
  /\ pc' = "done"
  /\ UNCHANGED <<args, td, epoch_counter, step_counter, lstep_counter, i, eps_rew, done,
                 trunc, epsilon, lr, exp_replay, online_qnet, target_qnet, accum,
                 act_eps, ev_i, ev_rew, hist>>

\* lines 115-168: one iteration of the episode's for loop
ForStep ==
  /\ pc = "for"
  /\ i < args.N_STEPS
  /\ LET sc     == step_counter + 1
         eps2   == EpsDecay(epsilon)
         beta2  == IF args.PER THEN BetaAnneal(exp_replay.beta, sc) ELSE exp_replay.beta
     IN  \E d \in BOOLEAN, tr \in BOOLEAN, rew \in Rewards :
           LET buf   == Insert(exp_replay, Transition(rew, d, tr))
               learn == LearnGate(buf.counter, sc)
               lsc   == IF learn THEN lstep_counter + 1 ELSE lstep_counter
               sync  == learn /\ SyncDue(lsc)
           IN  /\ step_counter' = sc
               /\ act_eps' = epsilon
               /\ done' = d
               /\ trunc' = tr
               /\ eps_rew' = eps_rew + rew
               /\ lstep_counter' = lsc
               /\ target_qnet' = IF sync THEN online_qnet ELSE target_qnet
               /\ hist' = IF learn THEN Append(hist, online_qnet) ELSE hist
               /\ online_qnet' = IF learn THEN online_qnet + 1 ELSE online_qnet
               /\ epsilon' = eps2
               /\ exp_replay' = [buf EXCEPT !.beta = beta2]
               /\ i' = i + 1
               /\ pc' = IF Break(d, tr) THEN "after_for" ELSE "for"
  /\ UNCHANGED <<args, td, epoch_counter, lr, accum, ev_i, ev_rew>>

\* line 115: range(N_STEPS) is exhausted
ForExit ==
  /\ pc = "for"
  /\ i >= args.N_STEPS
  /\ pc' = "after_for"
  /\ UNCHANGED <<args, td, epoch_counter, step_counter, lstep_counter, i, eps_rew, done,
                 trunc, epsilon, lr, exp_replay, online_qnet, target_qnet, accum,
                 act_eps, ev_i, ev_rew, hist>>

\* lines 170-181 and 25-26: learning-rate decay, accumulation, evaluation test
EpisodeEnd ==
  /\ pc = "after_for"
  /\ lr' = IF args.IS_LR_DECAY THEN LrDecay(lr, epoch_counter) ELSE lr
  /\ accum' = [accum EXCEPT !.rew = Append(@, eps_rew),
                            !.steps = Append(@, step_counter)]
  /\ pc' = IF EvalDue(epoch_counter) THEN "eval" ELSE "while"
  /\ ev_i' = 0
  /\ ev_rew' = 0
  /\ UNCHANGED <<args, td, epoch_counter, step_counter, lstep_counter, i, eps_rew, done,
                 trunc, epsilon, exp_replay, online_qnet, target_qnet, act_eps, hist>>

\* eval_model, lines 27-32: one greedy step of the evaluation episode
EvalStep ==
  /\ pc = "eval"
  /\ ev_i < args.N_STEPS
  /\ \E d \in BOOLEAN, rew \in Rewards :
       /\ act_eps' = EvalRate(epsilon)
       /\ ev_rew' = ev_rew + rew
       /\ ev_i' = ev_i + 1
       /\ pc' = IF d THEN "eval_ret" ELSE "eval"
  /\ UNCHANGED <<args, td, epoch_counter, step_counter, lstep_counter, i, eps_rew, done,
                 trunc, epsilon, lr, exp_replay, online_qnet, target_qnet, accum, hist>>

\* eval_model, line 27: range(max_steps) is exhausted
EvalExit ==
  /\ pc = "eval"
  /\ ev_i >= args.N_STEPS
  /\ pc' = "eval_ret"
  /\ UNCHANGED <<args, td, epoch_counter, step_counter, lstep_counter, i, eps_rew, done,
                 trunc, epsilon, lr, exp_replay, online_qnet, target_qnet, accum,
                 act_eps, ev_i, ev_rew, hist>>

\* lines 33 and 181-194: the return is recorded in the evaluation series
EvalReturn ==
  /\ pc = "eval_ret"
  /\ accum' = [accum EXCEPT !.eval_rew = Append(@, ev_rew)]
  /\ pc' = "while"
  /\ UNCHANGED <<args, td, epoch_counter, step_counter, lstep_counter, i, eps_rew, done,
                 trunc, epsilon, lr, exp_replay, online_qnet, target_qnet, act_eps,
                 ev_i, ev_rew, hist>>

Next ==
  \/ WhileEnter
  \/ WhileExit
  \/ ForStep
  \/ ForExit
  \/ EpisodeEnd
  \/ EvalStep
  \/ EvalExit
  \/ EvalReturn

Init == InitWith(ArgsControl, "while", {NoBatch})
Spec == Init /\ [][Next]_vars

SchedInit == InitWith(ArgsSched, "while", {NoBatch})
SpecSched == SchedInit /\ [][Next]_vars

\* runs that vary the budget and the episode length only
ArgsBudget ==
  {A \in ArgsControl : /\ A.UPDATE_STEPS = 1
                       /\ A.UPDATE_TARGET = 2
                       /\ A.PLOT_INTERVAL = 2
                       /\ A.BATCH_SIZE = 1}

FairInit == InitWith(ArgsBudget, "while", {NoBatch})
\* The loop is sequential code: whenever a next statement exists it is executed
\* (every call to the environment and the networks is taken to return).
FairSpec == FairInit /\ [][Next]_vars /\ WF_vars(Next)

\* ------------------------------------------------------------------------
\* The exploration schedule on its own (line 161 applied step after step)
\* ------------------------------------------------------------------------
MaxEpsSteps == 1002

ArgsEpsScenario ==
  [TOTAL_TIMESTEPS : {MaxEpsSteps},
   N_STEPS         : {MaxEpsSteps},
   UPDATE_STEPS    : {1},
   UPDATE_TARGET   : {1},
   PLOT_INTERVAL   : {1},
   BATCH_SIZE      : {1},
   BUFFER_SIZE     : {2},
   PER             : {FALSE},
   PER_BETA        : {FFromRat(4, 10)},
   IS_LR_DECAY     : {FALSE},
   GAMMA           : {<<99, 100>>},
   INIT_LR         : {FFromRat(1, 1000)},
   LR_DECAY        : {FFromRat(1, 100)},
   EPS             : {<<FFromRat(1, 1), FFromRat(5, 100)>>},
   EXPLORE         : {1000}]

EpsInit == InitWith(ArgsEpsScenario, "decay", {NoBatch})

\* lines 116 and 161 of one environment step
EpsStep ==
  /\ pc = "decay"
  /\ step_counter < MaxEpsSteps
  /\ step_counter' = step_counter + 1
  /\ epsilon' = EpsDecay(epsilon)
  /\ UNCHANGED <<args, td, pc, epoch_counter, lstep_counter, i, eps_rew, done, trunc,
                 lr, exp_replay, online_qnet, target_qnet, accum, act_eps, ev_i,
                 ev_rew, hist>>

SpecEps == EpsInit /\ [][EpsStep]_vars

\* ------------------------------------------------------------------------
\* The TD target of a learning update (lines 134-146).  The tensors' element
\* type is fixed outside train.py: values are integers, GAMMA is the rational
\* GAMMA[1] / GAMMA[2] and a target is held multiplied by GAMMA[2].
\* ------------------------------------------------------------------------
MaxTDBatch == 1

Actions == {1, 2}
QValues == {0, 1, 2}
QRows == [Actions -> QValues]

RowMax(row) == CHOOSE v \in {row[a] : a \in Actions} : \A a \in Actions : row[a] <= v

\* torch.max(..., dim=1)[1]: the index of a maximal entry of the row
ArgMaxSet(row) == {a \in Actions : row[a] = RowMax(row)}

\* lines 144-145: the target network's maximal value
QNsVanilla(online_row, targ_row) == RowMax(targ_row)

QNsDoubleOnline(online_row, targ_row, a) == online_row[a]

\* lines 140-141: the target network's value at the online network's action
QNsDouble(online_row, targ_row, a) == targ_row[a]

\* line 146
QTarg(rew, d, q_ns) == rew * args.GAMMA[2] + args.GAMMA[1] * (1 - d) * q_ns

\* a sampled transition with the two networks' outputs on its next state
BatchRows == [rew : {0, 1}, done : {0, 1}, online_q : QRows, targ_q : QRows]
NoTarget == <<>>
Batches ==
  {[batch |-> b, max_a |-> NoTarget, double |-> NoTarget, vanilla |-> NoTarget] :
     b \in UNION {[1..n -> BatchRows] : n \in 1..MaxTDBatch}}

ArgsTD ==
  [TOTAL_TIMESTEPS : {1},
   N_STEPS         : {1},
   UPDATE_STEPS    : {1},
   UPDATE_TARGET   : {1},
   PLOT_INTERVAL   : {1},
   BATCH_SIZE      : {1},
   BUFFER_SIZE     : {2},
   PER             : {FALSE},
   PER_BETA        : {FFromRat(4, 10)},
   IS_LR_DECAY     : {FALSE},
   GAMMA           : {<<99, 100>>},
   INIT_LR         : {FFromRat(1, 1000)},
   LR_DECAY        : {FFromRat(1, 100)},
   EPS             : {<<FFromRat(1, 1), FFromRat(5, 100)>>},
   EXPLORE         : {2}]

TDInit == InitWith(ArgsTD, "td", Batches)

\* lines 142-146 (DDQN false)
TDVanilla ==
  /\ pc = "td"
  /\ td.vanilla = NoTarget
  /\ td' = [td EXCEPT !.vanilla =
              [j \in DOMAIN td.batch |->
                 QTarg(td.batch[j].rew, td.batch[j].done,
                       QNsVanilla(td.batch[j].online_q, td.batch[j].targ_q))]]
  /\ UNCHANGED <<args, pc, epoch_counter, step_counter, lstep_counter, i, eps_rew,
                 done, trunc, epsilon, lr, exp_replay, online_qnet, target_qnet,
                 accum, act_eps, ev_i, ev_rew, hist>>

\* lines 135-141 and 146 (DDQN true)
TDDouble ==
  /\ pc = "td"
  /\ td.double = NoTarget
  /\ \E max_a_ns \in [DOMAIN td.batch -> Actions] :
       /\ \A j \in DOMAIN td.batch : max_a_ns[j] \in ArgMaxSet(td.batch[j].online_q)
       /\ td' = [td EXCEPT
                   !.max_a = max_a_ns,
                   !.double =
                     [j \in DOMAIN td.batch |->
                        QTarg(td.batch[j].rew, td.batch[j].done,
                              QNsDouble(td.batch[j].online_q, td.batch[j].targ_q,
                                        max_a_ns[j]))]]
  /\ UNCHANGED <<args, pc, epoch_counter, step_counter, lstep_counter, i, eps_rew,
                 done, trunc, epsilon, lr, exp_replay, online_qnet, target_qnet,
                 accum, act_eps, ev_i, ev_rew, hist>>

TDNext == TDVanilla \/ TDDouble

SpecTD == TDInit /\ [][TDNext]_vars

\* ------------------------------------------------------------------------
\* Properties
\* ------------------------------------------------------------------------
T == args.TOTAL_TIMESTEPS
N == args.N_STEPS
K == args.UPDATE_TARGET

\* C1: the target parameters are the online parameters as they were at the copy
\* point of the latest learning update whose ordinal is a multiple of UPDATE_TARGET
\* (the initial online parameters before the first such update); the target changes
\* only in such an update, and a step without a learning update changes no network.
C1_TargetIsLastSync ==
  /\ [](target_qnet = IF K * (lstep_counter \div K) = 0 THEN 0
                      ELSE hist[K * (lstep_counter \div K)])
  /\ [][target_qnet' # target_qnet =>
          /\ lstep_counter' = lstep_counter + 1
          /\ lstep_counter' % K = 0
          /\ target_qnet' = online_qnet]_vars
  /\ [][lstep_counter' = lstep_counter =>
          online_qnet' = online_qnet /\ target_qnet' = target_qnet]_vars

\* a sync has happened and a later update, not a multiple of UPDATE_TARGET, kept it
C1_Witness ==
  /\ K = 2
  /\ lstep_counter = 3
  /\ target_qnet = hist[2]
  /\ target_qnet # online_qnet

\* C2: an environment step performs a learning update iff, after its insert, the
\* buffer's count exceeds BATCH_SIZE and step_counter is a multiple of UPDATE_STEPS;
\* it performs at most one; nothing else performs one; and while the count is at
\* most BATCH_SIZE no update and no sync has happened.
C2_LearningGate ==
  /\ [][step_counter' = step_counter + 1 =>
          /\ (lstep_counter' = lstep_counter + 1) <=>
               (exp_replay'.counter > args.BATCH_SIZE
                  /\ step_counter' % args.UPDATE_STEPS = 0)
          /\ lstep_counter' \in {lstep_counter, lstep_counter + 1}
          /\ online_qnet' - online_qnet = lstep_counter' - lstep_counter]_vars
  /\ [][step_counter' = step_counter => lstep_counter' = lstep_counter]_vars
  /\ [](exp_replay.counter <= args.BATCH_SIZE =>
          lstep_counter = 0 /\ online_qnet = 0 /\ target_qnet = 0)

\* the buffer has filled past BATCH_SIZE, a step off the cadence was skipped and a
\* step on the cadence has learned
C2_Witness ==
  /\ args.BATCH_SIZE = 1
  /\ args.UPDATE_STEPS = 2
  /\ step_counter = 3
  /\ lstep_counter = 1

\* C3 (as stated): step_counter never exceeds TOTAL_TIMESTEPS.
C3_NeverExceedsBudget == step_counter <= T

\* C3 (amended): an episode begins only while step_counter < TOTAL_TIMESTEPS, and
\* an episode in progress runs on, so step_counter stays within
\* TOTAL_TIMESTEPS + N_STEPS - 1.
C3_BudgetAtEpisodeStart ==
  [][step_counter' # step_counter =>
       /\ step_counter' = step_counter + 1
       /\ (i = 0 => step_counter < T)
       /\ step_counter' <= T + N - 1]_vars

\* an episode in progress has taken a step past the budget
C3_Witness == pc = "for" /\ i >= 2 /\ step_counter > T

\* C4: epsilon is never below FIN_EPS and equals FIN_EPS after every environment
\* step numbered EXPLORE or more.
C4_EpsilonReachesFloor ==
  /\ FLeq(FIN_EPS, epsilon)
  /\ (step_counter >= args.EXPLORE => epsilon = FIN_EPS)

\* 2^-40
Tol == [neg |-> FALSE, m |-> BShl(<<1>>, 52), e |-> -92]
Near(a, b) == FLeq(FSub(a, b), Tol) /\ FLeq(FSub(b, a), Tol)

\* C5 (as stated): INIT_EPS 1.0, FIN_EPS 0.05, EXPLORE 1000: after 950 steps epsilon
\* is 0.05 + 0.05 * (1000 - 950) / 1000, and after 1000 or more steps it is 0.05.
C5_ScenarioAsStated ==
  /\ step_counter = 950 =>
       Near(epsilon, FAdd(FFromRat(5, 100),
                          FDivInt(FMul(FFromRat(5, 100), FFromInt(1000 - 950)), 1000)))
  /\ step_counter >= 1000 => epsilon = FIN_EPS

\* C5 (amended): after 950 steps epsilon is 0.05 + 0.95 * (1000 - 950) / 1000 =
\* 0.0975 to within 2^-40 and has not been clipped; after 1000 or more steps it is
\* exactly 0.05.
C5_Scenario ==
  /\ step_counter = 950 =>
       Near(epsilon, FFromRat(975, 10000)) /\ FLess(FIN_EPS, epsilon)
  /\ step_counter >= 1000 => epsilon = FIN_EPS

C5_Witness == step_counter = 950 /\ FLess(FIN_EPS, epsilon) /\ pc = "decay"

\* C6: with PER, beta moves once per environment step to
\* beta + (step_counter / TOTAL_TIMESTEPS) * (1 - beta), never decreases, never
\* exceeds 1 and is 1 once step_counter has reached TOTAL_TIMESTEPS; nothing else
\* changes it; without PER there is no beta to change.
C6_BetaAnneal ==
  /\ [](args.PER =>
          /\ FLeq(exp_replay.beta, FOne)
          /\ (step_counter >= T => exp_replay.beta = FOne))
  /\ [](~args.PER => exp_replay.beta = NoBeta)
  /\ [][args.PER /\ step_counter' = step_counter + 1 =>
          /\ exp_replay'.beta =
               FAdd(exp_replay.beta,
                    FMul(FFromRat(step_counter', T), FSub(FOne, exp_replay.beta)))
          /\ FLeq(exp_replay.beta, exp_replay'.beta)]_vars
  /\ [][step_counter' = step_counter => exp_replay'.beta = exp_replay.beta]_vars

\* a step past the budget, taken with beta already at 1
C6_Witness ==
  /\ args.PER
  /\ args.PER_BETA = FFromRat(4, 10)
  /\ step_counter > T
  /\ exp_replay.beta = FOne

TDBoth == td.vanilla # NoTarget /\ td.double # NoTarget
TDSame(j) == td.double[j] = td.vanilla[j]
TDIdenticalNets == \A j \in DOMAIN td.batch : td.batch[j].online_q = td.batch[j].targ_q
\* the online network's action is not a maximiser of the target network's row
TDDisagree(j) == td.max_a[j] \notin ArgMaxSet(td.batch[j].targ_q)

\* C7 (as stated): if the networks disagree on the arg-max action of some next
\* state of the batch, the two modes' TD targets differ; if the networks are
\* identical, the targets are identical.
C7_DisagreeImpliesDifferent ==
  TDBoth =>
    /\ (\E j \in DOMAIN td.batch : TDDisagree(j)) => td.double # td.vanilla
    /\ TDIdenticalNets => td.double = td.vanilla

\* C7 (amended): in exact arithmetic the two modes' targets of a transition differ
\* exactly when it is not terminal (done = 0) and the target network's value at the
\* online network's arg-max action is below the target network's maximum; identical
\* networks give identical targets.
C7_DoubleVsVanilla ==
  TDBoth =>
    /\ \A j \in DOMAIN td.batch :
         ~TDSame(j) <=>
           /\ td.batch[j].done = 0
           /\ td.batch[j].targ_q[td.max_a[j]] < RowMax(td.batch[j].targ_q)
    /\ TDIdenticalNets => td.double = td.vanilla

\* the networks disagree on a terminal transition and the targets are the reward
C7_Witness ==
  /\ TDBoth
  /\ \E j \in DOMAIN td.batch :
       /\ TDDisagree(j)
       /\ td.batch[j].done = 1
       /\ td.double[j] = td.batch[j].rew * args.GAMMA[2]
       /\ TDSame(j)

\* C8: a further environment step of an episode is taken only if the previous
\* step of that episode reported neither done nor truncated.
C8_StopsOnTruncated ==
  [][step_counter' = step_counter + 1 /\ i >= 1 => ~(done \/ trunc)]_vars

\* C9: an evaluation episode changes nothing of the training state, always passes
\* the exploration rate -1, runs exactly once after each episode whose count is a
\* multiple of PLOT_INTERVAL, and its return goes to the evaluation series only.
C9_EvalSideEffectFree ==
  /\ [][(pc = "eval" \/ pc = "eval_ret") =>
          (UNCHANGED <<exp_replay, step_counter, lstep_counter, epoch_counter,
                       epsilon, lr, online_qnet, target_qnet, accum.rew,
                       accum.steps>>)]_vars
  /\ [][pc = "eval" /\ ev_i' = ev_i + 1 => act_eps' = FFromInt(-1)]_vars
  /\ [][accum'.eval_rew # accum.eval_rew =>
          pc = "eval_ret" /\ accum'.eval_rew = Append(accum.eval_rew, ev_rew)]_vars
  /\ [](pc \in {"while", "done"} =>
          /\ Len(accum.eval_rew) = epoch_counter \div args.PLOT_INTERVAL
          /\ Len(accum.rew) = epoch_counter)

\* an evaluation of at least one greedy step has returned, after the second episode
C9_Witness ==
  /\ pc = "while"
  /\ args.PLOT_INTERVAL = 2
  /\ Len(accum.rew) = 2
  /\ Len(accum.eval_rew) = 1
  /\ accum.eval_rew[1] >= 1
  /\ act_eps = FFromInt(-1)
  /\ lr # args.INIT_LR

\* C10: with N_STEPS >= 1 the loop terminates, every episode takes between 1 and
\* N_STEPS steps, and main returns with
\* TOTAL_TIMESTEPS <= step_counter <= TOTAL_TIMESTEPS + N_STEPS - 1; with
\* N_STEPS = 0 step_counter never advances and main never returns.
C10_Termination ==
  /\ [](N >= 1 => <>(pc = "done"))
  /\ [](pc = "done" => T <= step_counter /\ step_counter <= T + N - 1)
  /\ [](pc = "after_for" /\ N >= 1 => 1 <= i /\ i <= N)
  /\ [](N = 0 => pc # "done" /\ step_counter = 0)

\* main has returned with the largest overshoot
C10_Witness == pc = "done" /\ N >= 2 /\ step_counter = T + N - 1

====
